---- MODULE Spec2Model ----
(***************************************************************************)
(* Reduction engine of NP-reduction-visualization (package npvis):         *)
(*   R1  3-SAT -> INDEPENDENT-SET  (reduction/three_sat_to_independent_set) *)
(*   R2  3-SAT -> 3-COLORING       (reduction/three_sat_to_3color)          *)
(* together with the formula model, the graph container and the            *)
(* evaluators of the three problems.                                       *)
(*                                                                         *)
(* Objects are modelled by handles.  A literal occurrence (a Variable      *)
(* object, compared by identity) is <<ci, li>>, clause index and position; *)
(* the Clause object of clause ci is <<ci, 0>>.  A Node object (compared   *)
(* by identity) is <<inst, id>>: the problem instance that created it and  *)
(* the node_id that instance gave it (the code reads it as node.node_id    *)
(* and as node.id).  Neither Node nor Edge defines equality, so an Edge    *)
(* object is a new member of the edge set even when its endpoints are      *)
(* already joined: the edge set is a sequence, one entry per Edge object.  *)
(*                                                                         *)
(* Both target problems construct their graph as Graph(), and Graph's      *)
(* constructor binds nodes, edges and groups to its default arguments,     *)
(* which Python creates once: the problems of one process work on the same *)
(* three containers.  They are the variables nodes, edges and groups.      *)
(***************************************************************************)
EXTENDS Integers, Sequences, FiniteSets, TLC

\* ------------------------------------------------------------------ bounds
MaxVars == 2
MaxClauses == 2
MaxBuilds == 2
MaxCalls == 1
MaxLits == 3
MaxNodes == 3
MaxEdges == 3
MaxSources == 2
MaxTargets == 2
MaxColored == 1
MaxRepeat == 2
MaxRepeatClauses == 1

\* ------------------------------------------------------- program constants
\* a clause of a 3-CNF formula has three literals
ClauseLen == 3

VARIABLES
    clauses,          \* ThreeSATProblem.element.clauses
    nodes,            \* Graph.nodes
    edges,            \* Graph.edges: one entry per Edge object
    groups,           \* Graph.groups
    color,            \* Node.color of every node
    is_next_node_id,  \* IndependentSetProblem.next_node_id
    col_next_node_id, \* ThreeColoringProblem.next_node_id
    col_solution,     \* ThreeColoringProblem.solution (NPProblem.solution)
    col_coloring,     \* ThreeColoringProblem.coloring
    r1,               \* the ThreeSatToIndependentSetReduction instance
    r2,               \* the ThreeSatToThreeColoringReduction instance
    red,              \* a Reduction (base class) instance
    added,            \* the keys and (key, element) pairs added to red so far
    last              \* the last call made and what it returned

vars == <<clauses, nodes, edges, groups, color, is_next_node_id,
          col_next_node_id, col_solution, col_coloring, r1, r2, red, added,
          last>>

\* ----------------------------------------------------------- formula model
VarNames == 1..MaxVars

Literals == [name : VarNames, is_negated : BOOLEAN]

Clauses == [1..ClauseLen -> Literals]

Formulas == UNION {[1..n -> Clauses] : n \in 0..MaxClauses}

Assignments == [VarNames -> BOOLEAN]

\* the Variable object at position li of clause ci
LitAt(cls, lit) == cls[lit[1]][lit[2]]

\* ThreeSATProblem.get_variables
get_variables(cls) ==
    UNION {{cls[ci][li].name : li \in 1..Len(cls[ci])} : ci \in 1..Len(cls)}

\* dict.get(key, False) on an assignment
AssignGet(assignment, name) ==
    IF name \in DOMAIN assignment THEN assignment[name] ELSE FALSE

\* (mutation of evaluate_clause: no break, the result is the last
\* literal's)
evaluate_clause_last(clause_obj, assignment) ==
    AssignGet(assignment, clause_obj[Len(clause_obj)].name)
        # clause_obj[Len(clause_obj)].is_negated

\* ThreeSATProblem._evaluate_clause
evaluate_clause(clause_obj, assignment) ==
    \E li \in 1..Len(clause_obj) :
        AssignGet(assignment, clause_obj[li].name) # clause_obj[li].is_negated

\* ThreeSATProblem.evaluate
ThreeSATEvaluate(cls, assignment) ==
    \A ci \in 1..Len(cls) : evaluate_clause(cls[ci], assignment)

\* Clause.evaluate from literal li on: any() over solution[v.name] !=
\* v.is_negated stops at the first true literal, and the subscript raises
\* KeyError at the first literal reached whose variable has no value
RECURSIVE ClauseEvaluate(_, _, _)
ClauseEvaluate(clause_obj, solution, li) ==
    IF li > Len(clause_obj) THEN "False"
    ELSE IF clause_obj[li].name \notin DOMAIN solution THEN "KeyError"
    ELSE IF solution[clause_obj[li].name] # clause_obj[li].is_negated
         THEN "True"
         ELSE ClauseEvaluate(clause_obj, solution, li + 1)

\* Formula.evaluate from clause ci on: all() over Clause.evaluate stops at
\* the first false clause, and a KeyError ends the call
RECURSIVE FormulaEvaluate(_, _, _)
FormulaEvaluate(cls, solution, ci) ==
    IF ci > Len(cls) THEN "True"
    ELSE LET c == ClauseEvaluate(cls[ci], solution, 1)
         IN  IF c = "True" THEN FormulaEvaluate(cls, solution, ci + 1)
             ELSE c

\* the (var_id, flag) tuples of a clause handed to add_clause
LiteralTuples == VarNames \X BOOLEAN

\* the clauses handed to add_clause: lists of one to MaxLits tuples
ClauseTuples == UNION {[1..n -> LiteralTuples] : n \in 1..MaxLits}

\* the assignments handed to evaluate: dicts over some of the variables
PartialAssignments == UNION {[S -> BOOLEAN] : S \in SUBSET VarNames}

\* ThreeSATProblem.add_clause: the Clause object it appends, one Variable
\* (var_id, is_negated) for every tuple
add_clause(literals) ==
    [lit_id \in 1..Len(literals) |->
        [name |-> literals[lit_id][1], is_negated |-> literals[lit_id][2]]]

\* ThreeSATProblem.load_formula: add_clause for every clause of the list
RECURSIVE load_formula(_, _)
load_formula(cls, clause_list) ==
    IF clause_list = <<>> THEN cls
    ELSE load_formula(Append(cls, add_clause(Head(clause_list))),
                      Tail(clause_list))

\* str(var_id): the name load_formula_from_tuples gives a variable.  The
\* string of an id is a dict key different from the id and from the string
\* of any other id; it is modelled by a number above every id.
str(var_id) == MaxVars + var_id

\* ThreeSATProblem.load_formula_from_tuples from clause k of the list on:
\* a Variable (str(var_id), not is_without_negation) for every tuple
RECURSIVE load_formula_from_tuples(_, _, _)
load_formula_from_tuples(cls, list_of_clause_tuples, k) ==
    IF k > Len(list_of_clause_tuples) THEN cls
    ELSE load_formula_from_tuples(
             Append(cls,
                    [i \in 1..Len(list_of_clause_tuples[k]) |->
                        [name |-> str(list_of_clause_tuples[k][i][1]),
                         is_negated |-> ~list_of_clause_tuples[k][i][2]]]),
             list_of_clause_tuples, k + 1)

\* the assignments handed to a forward mapping: total, keyed by the
\* variable ids or by the names str(var_id)
KeyedAssignments ==
    [VarNames -> BOOLEAN] \cup [{str(v) : v \in VarNames} -> BOOLEAN]

\* ------------------------------------------------------------ dictionaries
\* A dict is a sequence of <<key, value>> entries in insertion order.
DictKeys(d) == {d[i][1] : i \in 1..Len(d)}

DictHas(d, k) == k \in DictKeys(d)

DictGet(d, k) == d[CHOOSE i \in 1..Len(d) : d[i][1] = k][2]

\* d[k] = v: a present key keeps its place, a new key goes last
DictPut(d, k, v) ==
    IF DictHas(d, k)
    THEN [i \in 1..Len(d) |-> IF d[i][1] = k THEN <<k, v>> ELSE d[i]]
    ELSE Append(d, <<k, v>>)

\* ------------------------------------------------------------- graph model
NoNode == <<"none", 0>>

LIGHTBLUE == "LIGHTBLUE"

\* ThreeColoringProblem.allowed_colors
allowed_colors == <<"(255, 0, 0)", "(0, 255, 0)", "(0, 0, 255)">>

\* Graph.hasEdge
hasEdge(es, node1, node2) ==
    \E i \in 1..Len(es) :
        \/ es[i][1] = node1 /\ es[i][2] = node2
        \/ es[i][1] = node2 /\ es[i][2] = node1

\* A Python int k handed over where a node is expected is <<"id", k>>.
IdOf(n) == <<"id", n[2]>>

\* Graph.get_node_by_id: the nodes at which a scan of Graph.nodes for
\* node_id = x can stop (the set's iteration order is not fixed); NoNode
\* when no node_id equals x, which is so whenever x is a Node object.
get_node_by_id(ns, x) ==
    IF x[1] = "id" /\ \E n \in ns : n[2] = x[2]
    THEN {n \in ns : n[2] = x[2]}
    ELSE {NoNode}

\* IndependentSetProblem.evaluate: the values it can return for node_ids.
\* res is what get_node_by_id finds for each member.
IndependentSetEvaluate(ns, es, node_ids) ==
    {(\A a \in node_ids, b \in node_ids :
          ~(a # b /\ hasEdge(es, res[a], res[b])))
       : res \in {f \in [node_ids -> ns \cup {NoNode}] :
                     \A x \in node_ids : f[x] \in get_node_by_id(ns, x)}}

\* ThreeColoringProblem.evaluate
ThreeColoringEvaluate(es, col) ==
    \A i \in 1..Len(es) : col[es[i][1]] # col[es[i][2]]

\* ------------------------------------------------- Reduction (base class)
\* Reduction.add_input1_to_input2_by_pair
add_input1_to_input2_by_pair(d, input1, input2) ==
    IF DictHas(d, input1)
    THEN DictPut(d, input1, DictGet(d, input1) \cup {input2})
    ELSE DictPut(d, input1, {input2})

\* (mutation of add_input1_to_input2_by_set: a present key's set is
\* replaced, not updated)
add_input1_to_input2_by_set_replace(d, input1, input2set) ==
    DictPut(d, input1, input2set)

\* Reduction.add_input1_to_input2_by_set
add_input1_to_input2_by_set(d, input1, input2set) ==
    IF DictHas(d, input1)
    THEN DictPut(d, input1, DictGet(d, input1) \cup input2set)
    ELSE DictPut(d, input1, input2set)

\* the color display_input_to_input gives a highlighted element
HighlightColor == "(0, 255, 0)"

\* the orders in which a loop over the Python set S can visit it
Orders(S) ==
    {f \in [1..Cardinality(S) -> S] :
        \A i \in DOMAIN f, j \in DOMAIN f : i # j => f[i] # f[j]}

\* the elements of a list
Elems(list) == {list[i] : i \in 1..Len(list)}

\* display_input_to_input, "CASE: not input 1": the key of the first item
\* of the dict whose value equals clicked_set, as a list of at most one
matching_key(d, clicked_set) ==
    LET hits == {i \in 1..Len(d) : d[i][2] = clicked_set}
    IN  IF hits = {} THEN <<>>
        ELSE <<d[CHOOSE i \in hits : \A j \in hits : i <= j][1]>>

\* ---------------------------------------------- R1: 3-SAT -> INDEPENDENT-SET
\* The state a build works on: the graph, the problem's id counter and the
\* reduction's maps.
R1World == [nodes |-> nodes, edges |-> edges, groups |-> groups,
            color |-> color, next_id |-> is_next_node_id, r |-> r1]

\* (mutation of is_add_edge_ok: the same-node assertion missing)
is_add_edge_ok_loops(ns, node1, node2) ==
    /\ node1 # NoNode
    /\ node2 # NoNode
    /\ node1 \in ns
    /\ node2 \in ns

\* IndependentSetProblem.add_edge: its assertions
is_add_edge_ok(ns, node1, node2) ==
    /\ node1 # NoNode
    /\ node2 # NoNode
    /\ node1 # node2
    /\ node1 \in ns
    /\ node2 \in ns

\* (mutation of LoopPairs: the inner loop stops after j = i + 1)
LoopPairsAdjacent(n, i, j) ==
    [k \in 1..(IF n > i THEN n - i ELSE 0) |-> <<i + k - 1, i + k>>]

\* the index pairs (i, j), i < j <= n, in the order of the nested loops
\* "for i in range(n): for j in range(i + 1, n)", from pair (i, j) on
RECURSIVE LoopPairs(_, _, _)
LoopPairs(n, i, j) ==
    IF i > n THEN <<>>
    ELSE IF j > n THEN LoopPairs(n, i + 1, i + 2)
         ELSE <<(<<i, j>>)>> \o LoopPairs(n, i, j + 1)

\* IndependentSetProblem.add_edge, Graph.add_edge, once for every pair of
\* the sequence es: a new Edge object joins the edge set for each pair
\* that passes the assertions
is_add_edges(W, es) ==
    LET ok(e) == is_add_edge_ok(W.nodes, e[1], e[2])
    IN  [W EXCEPT !.edges = @ \o SelectSeq(es, ok)]

\* build_graph_from_formula, step 1(a) for one literal:
\* IndependentSetProblem.add_node and the three maps
R1AddLiteralNode(W, lit) ==
    LET node == <<"is", W.next_id>>
    IN  [W EXCEPT
           !.nodes = @ \cup {node},
           !.color = (node :> LIGHTBLUE) @@ @,
           !.next_id = @ + 1,
           !.r.input1_to_input2_pairs = DictPut(@, lit, node),
           !.r.input2_to_input1_pairs = DictPut(@, node, lit),
           !.r.input1_to_input2_dict =
               add_input1_to_input2_by_pair(@, lit, node)]

\* step 1(a) for the literals li.. of clause ci
RECURSIVE R1AddClauseNodes(_, _, _, _)
R1AddClauseNodes(W, cls, ci, li) ==
    IF li > Len(cls[ci]) THEN W
    ELSE R1AddClauseNodes(R1AddLiteralNode(W, <<ci, li>>), cls, ci, li + 1)

\* the loop body of step 1 for clause ci: nodes (a), group (b), clique (c)
R1BuildClause(W, cls, ci) ==
    LET W1 == R1AddClauseNodes(W, cls, ci, 1)
        clause_nodes ==
            [li \in 1..Len(cls[ci]) |->
                DictGet(W1.r.input1_to_input2_pairs, <<ci, li>>)]
        W2 == [W1 EXCEPT !.groups = Append(@, clause_nodes)]
        ij == LoopPairs(Len(clause_nodes), 1, 2)
    IN  is_add_edges(W2, [k \in 1..Len(ij) |->
                             <<clause_nodes[ij[k][1]], clause_nodes[ij[k][2]]>>])

RECURSIVE R1BuildClauses(_, _, _)
R1BuildClauses(W, cls, ci) ==
    IF ci > Len(cls) THEN W
    ELSE R1BuildClauses(R1BuildClause(W, cls, ci), cls, ci + 1)

\* (mutation of R1Complementary: the polarity test inverted)
R1SamePolarity(literal_A, literal_B) ==
    /\ literal_A.name = literal_B.name
    /\ literal_A.is_negated = literal_B.is_negated

\* step 2, the test on a pair of items: same variable, opposite polarity
R1Complementary(literal_A, literal_B) ==
    /\ literal_A.name = literal_B.name
    /\ literal_A.is_negated # literal_B.is_negated

\* step 2: an edge for every pair of items i < j whose literals are
\* complementary, in loop order
R1ComplementEdges(W, cls, items) ==
    LET complementary(p) ==
            R1Complementary(LitAt(cls, items[p[1]][1]),
                            LitAt(cls, items[p[2]][1]))
        ij == SelectSeq(LoopPairs(Len(items), 1, 2), complementary)
    IN  is_add_edges(W, [k \in 1..Len(ij) |->
                            <<items[ij[k][1]][2], items[ij[k][2]][2]>>])

\* ThreeSatToIndependentSetReduction.build_graph_from_formula
R1BuildGraph(W, cls) ==
    LET W1 == R1BuildClauses(W, cls, 1)
    IN  R1ComplementEdges(W1, cls, W1.r.input1_to_input2_pairs)

\* (mutation of R1LiteralSatisfied: the sign test inverted)
R1LiteralSatisfiedInverted(literal, sat_assignment) ==
    sat_assignment[literal.name] = literal.is_negated

\* solution1_to_solution2, the test "assigned_val != is_negated"
R1LiteralSatisfied(literal, sat_assignment) ==
    sat_assignment[literal.name] # literal.is_negated

\* (mutation of R1ChosenLiteral: the scan has no break, so the last
\* satisfied literal from li on is the one chosen)
R1ChosenLiteralLast(clause_obj, sat_assignment, li) ==
    LET hits == {i \in li..Len(clause_obj) :
                    R1LiteralSatisfied(clause_obj[i], sat_assignment)}
    IN  IF hits = {} THEN 0
        ELSE CHOOSE i \in hits : \A j \in hits : j <= i

\* solution1_to_solution2, the scan of one clause: the position of the
\* literal at which the scan breaks, 0 when it runs to the end
RECURSIVE R1ChosenLiteral(_, _, _)
R1ChosenLiteral(clause_obj, sat_assignment, li) ==
    IF li > Len(clause_obj) THEN 0
    ELSE IF R1LiteralSatisfied(clause_obj[li], sat_assignment)
         THEN li
         ELSE R1ChosenLiteral(clause_obj, sat_assignment, li + 1)

\* ThreeSatToIndependentSetReduction.solution1_to_solution2 from clause ci
\* on.  acc holds the independent set so far and output1_to_output2_pairs.
RECURSIVE R1Solution1To2(_, _, _, _, _)
R1Solution1To2(acc, pairs, cls, sat_assignment, ci) ==
    IF ci > Len(cls) THEN acc
    ELSE LET li == R1ChosenLiteral(cls[ci], sat_assignment, 1)
             node == DictGet(pairs, <<ci, li>>)
         IN  R1Solution1To2(
                 IF li = 0 THEN acc
                 ELSE [independent_set |-> acc.independent_set \cup {node},
                       output1_to_output2_pairs |->
                           DictPut(acc.output1_to_output2_pairs,
                                   <<ci, li>>, node)],
                 pairs, cls, sat_assignment, ci + 1)

\* solution1_to_solution2, the scan of one clause from literal li on, when
\* the assignment need not have the literal's name as a key: the position
\* at which the scan breaks, 0 when it runs to the end, -1 when
\* sat_assignment[var_id] raises KeyError
RECURSIVE R1ScanClause(_, _, _)
R1ScanClause(clause_obj, sat_assignment, li) ==
    IF li > Len(clause_obj) THEN 0
    ELSE IF clause_obj[li].name \notin DOMAIN sat_assignment THEN -1
    ELSE IF sat_assignment[clause_obj[li].name] # clause_obj[li].is_negated
         THEN li
         ELSE R1ScanClause(clause_obj, sat_assignment, li + 1)

\* solution1_to_solution2 from clause ci on, ended by the first KeyError:
\* what was written to output1_to_output2_pairs before it stays written
RECURSIVE R1Solution1To2Keyed(_, _, _, _, _)
R1Solution1To2Keyed(acc, pairs, cls, sat_assignment, ci) ==
    IF ci > Len(cls) THEN acc
    ELSE LET li == R1ScanClause(cls[ci], sat_assignment, 1)
         IN  IF li = -1 THEN [acc EXCEPT !.error = "KeyError"]
             ELSE R1Solution1To2Keyed(
                      IF li = 0 THEN acc
                      ELSE [acc EXCEPT
                              !.independent_set =
                                  @ \cup {DictGet(pairs, <<ci, li>>)},
                              !.output1_to_output2_pairs =
                                  DictPut(@, <<ci, li>>,
                                          DictGet(pairs, <<ci, li>>))],
                      pairs, cls, sat_assignment, ci + 1)

\* (mutation of R1LiteralValue: the negation dropped)
R1LiteralValueFlipped(literal) == literal.is_negated

\* solution2_to_solution1, step 4(a), the truth value a selected literal
\* fixes for its variable
R1LiteralValue(literal) == ~literal.is_negated

\* solution2_to_solution1, step 4(a) from item i of input1_to_input2_pairs
\* on.  acc holds sat_assignment so far (a dict) and
\* output2_to_output1_pairs.
RECURSIVE R1Selected(_, _, _, _, _)
R1Selected(acc, pairs, cls, independent_set, i) ==
    IF i > Len(pairs) THEN acc
    ELSE LET literal == pairs[i][1]
             node == pairs[i][2]
             var == LitAt(cls, literal).name
         IN  R1Selected(
                 IF node \in independent_set
                 THEN [sat_assignment |->
                           IF DictHas(acc.sat_assignment, var)
                           THEN acc.sat_assignment
                           ELSE DictPut(acc.sat_assignment, var,
                                        R1LiteralValue(LitAt(cls, literal))),
                       output2_to_output1_pairs |->
                           DictPut(acc.output2_to_output1_pairs, node, literal)]
                 ELSE acc,
                 pairs, cls, independent_set, i + 1)

\* (mutation of R1Solution2To1: the default of step 4(b) is True)
R1Solution2To1DefaultTrue(r, cls, independent_set) ==
    LET sel == R1Selected([sat_assignment |-> <<>>,
                           output2_to_output1_pairs |->
                               r.output2_to_output1_pairs],
                          r.input1_to_input2_pairs, cls, independent_set, 1)
    IN  [sat_assignment |->
             [var \in get_variables(cls) |->
                 IF DictHas(sel.sat_assignment, var)
                 THEN DictGet(sel.sat_assignment, var)
                 ELSE TRUE],
         output2_to_output1_pairs |-> sel.output2_to_output1_pairs]

\* ThreeSatToIndependentSetReduction.solution2_to_solution1: the returned
\* assignment (a function on the formula's variables) and
\* output2_to_output1_pairs
R1Solution2To1(r, cls, independent_set) ==
    LET sel == R1Selected([sat_assignment |-> <<>>,
                           output2_to_output1_pairs |->
                               r.output2_to_output1_pairs],
                          r.input1_to_input2_pairs, cls, independent_set, 1)
    IN  [sat_assignment |->
             [var \in get_variables(cls) |->
                 IF DictHas(sel.sat_assignment, var)
                 THEN DictGet(sel.sat_assignment, var)
                 ELSE FALSE],
         output2_to_output1_pairs |-> sel.output2_to_output1_pairs]

\* ------------------------------------------------- R2: 3-SAT -> 3-COLORING
\* The state a build works on, and the exception that ended it.
R2World == [nodes |-> nodes, edges |-> edges, groups |-> groups,
            color |-> color, next_id |-> col_next_node_id, r |-> r2,
            error |-> "none"]

\* ThreeColoringProblem.add_node: the node gets the next id and the first
\* allowed color
col_add_node(W) ==
    LET node == <<"col", W.next_id>>
    IN  [W EXCEPT
           !.nodes = @ \cup {node},
           !.color = (node :> allowed_colors[1]) @@ @,
           !.next_id = @ + 1]

\* ThreeColoringProblem.add_edge, once for every pair of the sequence es
col_add_edges(W, es) == [W EXCEPT !.edges = @ \o es]

\* ThreeColoringProblem.add_group
col_add_group(W, group) == [W EXCEPT !.groups = Append(@, group)]

\* ThreeSatToThreeColoringReduction._build_color_base
R2BuildColorBase(W) ==
    LET B == <<"col", W.next_id>>
        T == <<"col", W.next_id + 1>>
        F == <<"col", W.next_id + 2>>
        W1 == col_add_node(col_add_node(col_add_node(W)))
        W2 == col_add_edges(W1, <<(<<B, T>>), (<<T, F>>), (<<F, B>>)>>)
        W3 == col_add_group(W2, <<B, T, F>>)
    IN  [W3 EXCEPT !.r.base_node = B, !.r.true_node = T, !.r.false_node = F]

\* _build_variable_gadgets, the edges of the gadget of one variable
R2VariableEdges(p, n, base_node) ==
    <<(<<p, n>>), (<<p, base_node>>), (<<n, base_node>>)>>

\* _build_variable_gadgets, the first loop from name on: names are taken
\* in sorted order
RECURSIVE R2BuildVariables(_, _, _)
R2BuildVariables(W, cls, name) ==
    IF name > MaxVars THEN W
    ELSE IF name \notin get_variables(cls)
         THEN R2BuildVariables(W, cls, name + 1)
         ELSE LET p == <<"col", W.next_id>>
                  n == <<"col", W.next_id + 1>>
                  W1 == col_add_node(col_add_node(W))
                  W2 == col_add_edges(W1,
                            R2VariableEdges(p, n, W.r.base_node))
                  W3 == col_add_group(W2, <<p, n>>)
              IN  R2BuildVariables(
                      [W3 EXCEPT !.r.var_nodes = DictPut(@, name, <<p, n>>)],
                      cls, name + 1)

\* _build_variable_gadgets, the second loop from literal (ci, li) on: the
\* literal is related to both nodes of its variable
RECURSIVE R2RelateLiterals(_, _, _, _)
R2RelateLiterals(W, cls, ci, li) ==
    IF ci > Len(cls) THEN W
    ELSE IF li > Len(cls[ci]) THEN R2RelateLiterals(W, cls, ci + 1, 1)
    ELSE LET pn == DictGet(W.r.var_nodes, cls[ci][li].name)
         IN  R2RelateLiterals(
                 [W EXCEPT !.r.input1_to_input2_dict =
                      add_input1_to_input2_by_pair(
                          add_input1_to_input2_by_pair(@, <<ci, li>>, pn[1]),
                          <<ci, li>>, pn[2])],
                 cls, ci, li + 1)

\* (mutation of or_gadget_edges: the edge g1-g2 left out)
or_gadget_edges_open(g1, g2, out, a, b) ==
    <<(<<g1, a>>), (<<g2, b>>), (<<g2, out>>), (<<out, g1>>)>>

\* _build_or_gadget, its five edges
or_gadget_edges(g1, g2, out, a, b) ==
    <<(<<g1, a>>), (<<g2, b>>), (<<g1, g2>>), (<<g2, out>>), (<<out, g1>>)>>

\* ThreeSatToThreeColoringReduction._build_or_gadget; the new nodes are
\* g1 = next_id, g2 = next_id + 1, out = next_id + 2
R2BuildOrGadget(W, a, b) ==
    LET g1 == <<"col", W.next_id>>
        g2 == <<"col", W.next_id + 1>>
        out == <<"col", W.next_id + 2>>
        W1 == col_add_node(col_add_node(col_add_node(W)))
        W2 == col_add_edges(W1, or_gadget_edges(g1, g2, out, a, b))
    IN  col_add_group(W2, <<out, g2, g1>>)

\* (mutation of R2LiteralNode: the pos node for every literal)
R2LiteralNodePositive(var_nodes, lit) ==
    DictGet(var_nodes, lit.name)[1]

\* _build_clause_gadgets, the node of a literal: neg for a negated one
R2LiteralNode(var_nodes, lit) ==
    LET pn == DictGet(var_nodes, lit.name)
    IN  IF lit.is_negated THEN pn[2] ELSE pn[1]

\* (mutation of R2OutputEdges: the edge out123-False left out)
R2OutputEdgesBaseOnly(out123, base_node, false_node) ==
    <<(<<out123, base_node>>)>>

\* _build_clause_gadgets, the edges that tie out123 down
R2OutputEdges(out123, base_node, false_node) ==
    <<(<<out123, base_node>>), (<<out123, false_node>>)>>

\* the Clause object of clause ci as a key of input1_to_input2_dict
ClauseKey(ci) == <<ci, 0>>

RECURSIVE R2RelateClause(_, _, _, _)
R2RelateClause(d, ci, six, i) ==
    IF i > Len(six) THEN d
    ELSE R2RelateClause(add_input1_to_input2_by_pair(d, ClauseKey(ci), six[i]),
                        ci, six, i + 1)

\* _build_clause_gadgets, the loop from clause ci on
RECURSIVE R2BuildClauses(_, _, _)
R2BuildClauses(W, cls, ci) ==
    IF ci > Len(cls) \/ W.error # "none" THEN W
    ELSE LET lnodes == [li \in 1..Len(cls[ci]) |->
                           R2LiteralNode(W.r.var_nodes, cls[ci][li])]
             g1_12 == <<"col", W.next_id>>
             g2_12 == <<"col", W.next_id + 1>>
             out12 == <<"col", W.next_id + 2>>
             W1 == R2BuildOrGadget(W, lnodes[1], lnodes[2])
             g1_123 == <<"col", W1.next_id>>
             g2_123 == <<"col", W1.next_id + 1>>
             out123 == <<"col", W1.next_id + 2>>
             W2 == R2BuildOrGadget(W1, out12, lnodes[3])
             W3 == col_add_edges(W2,
                       R2OutputEdges(out123, W.r.base_node, W.r.false_node))
             six == <<g1_12, g2_12, out12, g1_123, g2_123, out123>>
         IN  IF Len(lnodes) < 2
             THEN \* lnodes[1] is out of range
                  [W EXCEPT !.error = "IndexError"]
             ELSE IF Len(lnodes) < 3
             THEN \* lnodes[2] is out of range, the first gadget is built
                  [W1 EXCEPT !.error = "IndexError"]
             ELSE R2BuildClauses(
                 [W3 EXCEPT
                    !.r.clause_outputs = Append(@, six),
                    !.r.input1_to_input2_dict = R2RelateClause(@, ci, six, 1)],
                 cls, ci + 1)

\* ThreeSatToThreeColoringReduction._build_clause_gadgets
R2BuildClauseGadgets(W, cls) ==
    R2BuildClauses([W EXCEPT !.r.clause_outputs = <<>>], cls, 1)

\* ThreeSatToThreeColoringReduction.build_graph_from_formula
R2BuildGraph(W, cls) ==
    R2BuildClauseGadgets(
        R2RelateLiterals(
            R2BuildVariables(R2BuildColorBase(W), cls, 1), cls, 1, 1),
        cls)

\* (mutation of R2Table: the row of (False, True, True) is a copy of the
\* row of (False, False, True))
R2TableSlip(v1, v2, v3) ==
    CASE ~v1 /\ ~v2 /\ ~v3 -> <<"B", "T", "F", "B", "B", "T">>
      [] ~v1 /\ ~v2 /\  v3 -> <<"B", "T", "F", "B", "F", "T">>
      [] ~v1 /\  v2 /\ ~v3 -> <<"B", "F", "T", "F", "B", "T">>
      [] ~v1 /\  v2 /\  v3 -> <<"B", "T", "F", "B", "F", "T">>
      []  v1 /\ ~v2 /\ ~v3 -> <<"F", "T", "B", "F", "B", "T">>
      []  v1 /\ ~v2 /\  v3 -> <<"B", "T", "F", "B", "F", "T">>
      []  v1 /\  v2 /\ ~v3 -> <<"B", "F", "T", "F", "B", "T">>
      []  v1 /\  v2 /\  v3 -> <<"B", "F", "T", "B", "F", "T">>

\* solution1_to_solution2, the lookup table: for (v1, v2, v3) the classes
\* of g1_12, g2_12, out12, g1_123, g2_123, out123
R2Table(v1, v2, v3) ==
    CASE ~v1 /\ ~v2 /\ ~v3 -> <<"B", "T", "F", "B", "B", "T">>
      [] ~v1 /\ ~v2 /\  v3 -> <<"B", "T", "F", "B", "F", "T">>
      [] ~v1 /\  v2 /\ ~v3 -> <<"B", "F", "T", "F", "B", "T">>
      [] ~v1 /\  v2 /\  v3 -> <<"T", "B", "F", "B", "F", "T">>
      []  v1 /\ ~v2 /\ ~v3 -> <<"F", "T", "B", "F", "B", "T">>
      []  v1 /\ ~v2 /\  v3 -> <<"B", "T", "F", "B", "F", "T">>
      []  v1 /\  v2 /\ ~v3 -> <<"B", "F", "T", "F", "B", "T">>
      []  v1 /\  v2 /\  v3 -> <<"B", "F", "T", "B", "F", "T">>

\* the truth value of a literal under sat_assignment
R2LiteralTruth(lit, sat_assignment) ==
    sat_assignment[lit.name] # lit.is_negated

\* solution1_to_solution2, the class the table gives gadget node k of
\* clause ci
R2GadgetClass(cls, sat_assignment, ci, k) ==
    R2Table(R2LiteralTruth(cls[ci][1], sat_assignment),
            R2LiteralTruth(cls[ci][2], sat_assignment),
            R2LiteralTruth(cls[ci][3], sat_assignment))[k]

\* solution1_to_solution2, the class of the pos node of a variable
R2PosClass(v) == IF v THEN "T" ELSE "F"

\* solution1_to_solution2, the class of the neg node of a variable
R2NegClass(v) == IF v THEN "F" ELSE "T"

\* (mutation of R2Class: the nodes of the second OR-gadget are not added)
R2ClassFirstGadgetOnly(r, cls, sat_assignment, c) ==
    {n \in {r.true_node} : c = "T"}
    \cup {n \in {r.false_node} : c = "F"}
    \cup {n \in {r.base_node} : c = "B"}
    \cup {r.var_nodes[i][2][1] : i \in
             {j \in 1..Len(r.var_nodes) :
                R2PosClass(sat_assignment[r.var_nodes[j][1]]) = c}}
    \cup {r.var_nodes[i][2][2] : i \in
             {j \in 1..Len(r.var_nodes) :
                R2NegClass(sat_assignment[r.var_nodes[j][1]]) = c}}
    \cup UNION {{r.clause_outputs[ci][k] : k \in
                   {q \in 1..3 :
                      R2GadgetClass(cls, sat_assignment, ci, q) = c}}
               : ci \in 1..Len(cls)}

\* solution1_to_solution2, the members of one class: base triangle,
\* variable gadgets, clause gadgets
R2Class(r, cls, sat_assignment, c) ==
    {n \in {r.true_node} : c = "T"}
    \cup {n \in {r.false_node} : c = "F"}
    \cup {n \in {r.base_node} : c = "B"}
    \cup {r.var_nodes[i][2][1] : i \in
             {j \in 1..Len(r.var_nodes) :
                R2PosClass(sat_assignment[r.var_nodes[j][1]]) = c}}
    \cup {r.var_nodes[i][2][2] : i \in
             {j \in 1..Len(r.var_nodes) :
                R2NegClass(sat_assignment[r.var_nodes[j][1]]) = c}}
    \cup UNION {{r.clause_outputs[ci][k] : k \in
                   {q \in 1..6 :
                      R2GadgetClass(cls, sat_assignment, ci, q) = c}}
               : ci \in 1..Len(cls)}

\* ThreeSatToThreeColoringReduction.solution1_to_solution2:
\* [S_true, S_false, S_base]
R2Solution1To2(r, cls, sat_assignment) ==
    <<R2Class(r, cls, sat_assignment, "T"),
      R2Class(r, cls, sat_assignment, "F"),
      R2Class(r, cls, sat_assignment, "B")>>

\* (mutation of R2Solution2To1: the neg node is tested instead of the pos
\* node)
R2Solution2To1Neg(r, solution_sets) ==
    LET true_set == solution_sets[1]
    IN  [name \in DictKeys(r.var_nodes) |->
            DictGet(r.var_nodes, name)[2] \in true_set]

\* ThreeSatToThreeColoringReduction.solution2_to_solution1
R2Solution2To1(r, solution_sets) ==
    LET true_set == solution_sets[1]
    IN  [name \in DictKeys(r.var_nodes) |->
            DictGet(r.var_nodes, name)[1] \in true_set]

\* Graph.__init__ called as Graph(): the graph of a problem ("is" for the
\* IndependentSetProblem, "col" for the ThreeColoringProblem) has the
\* default arguments as its containers, the same objects for every problem
GraphOf(problem) == [nodes |-> nodes, edges |-> edges, groups |-> groups]

\* ------------------------------------------------------------------ calls
NoCall == [op |-> "none", sat_assignment |-> <<>>, set |-> {},
           sets |-> <<>>, ret_set |-> {}, ret_sets |-> <<>>,
           ret_assignment |-> <<>>, ret_pair |-> <<>>,
           args |-> <<>>, ret |-> FALSE, error |-> "none"]

R1Init == [input1_to_input2_pairs |-> <<>>,
           input2_to_input1_pairs |-> <<>>,
           input1_to_input2_dict |-> <<>>,
           output1_to_output2_pairs |-> <<>>,
           output2_to_output1_pairs |-> <<>>,
           builds |-> 0, calls |-> 0]

R2Init == [base_node |-> NoNode, true_node |-> NoNode, false_node |-> NoNode,
           var_nodes |-> <<>>, clause_outputs |-> <<>>,
           input1_to_input2_dict |-> <<>>,
           builds |-> 0, calls |-> 0]

\* Reduction.__init__: the correspondence dict and the highlighted list
RedInit == [input1_to_input2_dict |-> <<>>, highlighted |-> <<>>]

\* fresh problems and reductions, before a formula is loaded
Fresh ==
    /\ nodes = {}
    /\ edges = <<>>
    /\ groups = <<>>
    /\ color = <<>>
    /\ is_next_node_id = 1
    /\ col_next_node_id = 1
    /\ col_solution = <<>>
    /\ col_coloring = <<>>
    /\ r1 = R1Init
    /\ r2 = R2Init
    /\ red = RedInit
    /\ added = [keys |-> {}, pairs |-> {}]
    /\ last = NoCall

\* a 3-CNF formula is loaded
Init ==
    /\ clauses \in Formulas
    /\ Fresh

\* reduction.build_graph_from_formula() on the R1 instance
R1Build ==
    /\ r1.builds < MaxBuilds
    /\ LET W == R1BuildGraph(R1World, clauses)
       IN  /\ nodes' = W.nodes
           /\ edges' = W.edges
           /\ groups' = W.groups
           /\ color' = W.color
           /\ is_next_node_id' = W.next_id
           /\ r1' = [W.r EXCEPT !.builds = @ + 1]
    /\ last' = [NoCall EXCEPT !.op = "r1_build"]
    /\ UNCHANGED <<clauses, col_next_node_id, col_solution, r2>>
    /\ UNCHANGED <<red, added, col_coloring>>

\* every literal of the formula has a node: without one the lookup in
\* solution1_to_solution2 raises KeyError before anything is changed
R1Mapped ==
    \A ci \in 1..Len(clauses) : \A li \in 1..Len(clauses[ci]) :
        DictHas(r1.input1_to_input2_pairs, <<ci, li>>)

\* reduction.solution1_to_solution2(sat_assignment) on the R1 instance
R1Sol1To2Within(limit) ==
    /\ r1.calls < limit
    /\ R1Mapped
    /\ \E sat_assignment \in Assignments :
         LET res == R1Solution1To2(
                        [independent_set |-> {},
                         output1_to_output2_pairs |->
                             r1.output1_to_output2_pairs],
                        r1.input1_to_input2_pairs, clauses, sat_assignment, 1)
         IN  /\ r1' = [r1 EXCEPT
                         !.output1_to_output2_pairs =
                             res.output1_to_output2_pairs,
                         !.calls = @ + 1]
             /\ last' = [NoCall EXCEPT
                           !.op = "r1_solution1_to_solution2",
                           !.sat_assignment = sat_assignment,
                           !.ret_set = res.independent_set]
    /\ UNCHANGED <<clauses, nodes, edges, groups, color, is_next_node_id,
                   col_next_node_id, col_solution, r2>>
    /\ UNCHANGED <<red, added, col_coloring>>

R1Sol1To2 == R1Sol1To2Within(MaxCalls)

\* the sets handed to solution2_to_solution1: Node objects of the graph,
\* or node ids as test_reduction_reverse passes them
NodeSets == SUBSET nodes \cup SUBSET {IdOf(n) : n \in nodes}

\* (mutation of R1Sol2To1: the call starts by emptying
\* input2_to_input1_pairs, the wrong one of the two node-to-literal maps)
R1Sol2To1ResetsInput ==
    /\ r1.calls < MaxCalls
    /\ \E independent_set \in NodeSets :
         LET res == R1Solution2To1(r1, clauses, independent_set)
         IN  /\ r1' = [r1 EXCEPT
                         !.input2_to_input1_pairs = <<>>,
                         !.output2_to_output1_pairs =
                             res.output2_to_output1_pairs,
                         !.calls = @ + 1]
             /\ last' = [NoCall EXCEPT
                           !.op = "r1_solution2_to_solution1",
                           !.set = independent_set,
                           !.ret_assignment = res.sat_assignment]
    /\ UNCHANGED <<clauses, nodes, edges, groups, color, is_next_node_id,
                   col_next_node_id, col_solution, r2>>
    /\ UNCHANGED <<red, added, col_coloring>>

\* reduction.solution2_to_solution1(independent_set) on the R1 instance
R1Sol2To1Within(limit) ==
    /\ r1.calls < limit
    /\ \E independent_set \in NodeSets :
         LET res == R1Solution2To1(r1, clauses, independent_set)
         IN  /\ r1' = [r1 EXCEPT
                         !.output2_to_output1_pairs =
                             res.output2_to_output1_pairs,
                         !.calls = @ + 1]
             /\ last' = [NoCall EXCEPT
                           !.op = "r1_solution2_to_solution1",
                           !.set = independent_set,
                           !.ret_assignment = res.sat_assignment]
    /\ UNCHANGED <<clauses, nodes, edges, groups, color, is_next_node_id,
                   col_next_node_id, col_solution, r2>>
    /\ UNCHANGED <<red, added, col_coloring>>

R1Sol2To1 == R1Sol2To1Within(MaxCalls)

\* reduction.test_solution(sat_assignment) on the R1 instance
R1TestSolution ==
    /\ r1.calls < MaxCalls
    /\ R1Mapped
    /\ \E sat_assignment \in Assignments :
         LET satisfied == ThreeSATEvaluate(clauses, sat_assignment)
             res == R1Solution1To2(
                        [independent_set |-> {},
                         output1_to_output2_pairs |->
                             r1.output1_to_output2_pairs],
                        r1.input1_to_input2_pairs, clauses, sat_assignment, 1)
         IN  \E valid_independent \in
                 IndependentSetEvaluate(nodes, edges, res.independent_set) :
               /\ r1' = [r1 EXCEPT
                           !.output1_to_output2_pairs =
                               res.output1_to_output2_pairs,
                           !.calls = @ + 1]
               /\ last' = [NoCall EXCEPT
                             !.op = "r1_test_solution",
                             !.sat_assignment = sat_assignment,
                             !.ret_set = res.independent_set,
                             !.ret_pair = <<satisfied, valid_independent>>]
    /\ UNCHANGED <<clauses, nodes, edges, groups, color, is_next_node_id,
                   col_next_node_id, col_solution, r2>>
    /\ UNCHANGED <<red, added, col_coloring>>

\* the test script's round trip (test_reduction_input_map.main, steps 6):
\* is_set = solution1_to_solution2(sat_assignment), then
\* recovered_assignment = solution2_to_solution1(is_set)
R1RoundTrip ==
    /\ r1.calls < MaxCalls
    /\ R1Mapped
    /\ \E sat_assignment \in Assignments :
         LET fwd == R1Solution1To2(
                        [independent_set |-> {},
                         output1_to_output2_pairs |->
                             r1.output1_to_output2_pairs],
                        r1.input1_to_input2_pairs, clauses, sat_assignment, 1)
             bwd == R1Solution2To1(r1, clauses, fwd.independent_set)
         IN  /\ r1' = [r1 EXCEPT
                         !.output1_to_output2_pairs =
                             fwd.output1_to_output2_pairs,
                         !.output2_to_output1_pairs =
                             bwd.output2_to_output1_pairs,
                         !.calls = @ + 1]
             /\ last' = [NoCall EXCEPT
                           !.op = "r1_round_trip",
                           !.sat_assignment = sat_assignment,
                           !.ret_set = fwd.independent_set,
                           !.ret_assignment = bwd.sat_assignment]
    /\ UNCHANGED <<clauses, nodes, edges, groups, color, is_next_node_id,
                   col_next_node_id, col_solution, r2>>
    /\ UNCHANGED <<red, added, col_coloring>>

\* reduction.build_graph_from_formula() on the R2 instance
R2Build ==
    /\ r2.builds < MaxBuilds
    /\ LET W == R2BuildGraph(R2World, clauses)
       IN  /\ nodes' = W.nodes
           /\ edges' = W.edges
           /\ groups' = W.groups
           /\ color' = W.color
           /\ col_next_node_id' = W.next_id
           /\ r2' = [W.r EXCEPT !.builds = @ + 1]
           /\ last' = [NoCall EXCEPT !.op = "r2_build", !.error = W.error]
    /\ UNCHANGED <<clauses, is_next_node_id, col_solution, r1>>
    /\ UNCHANGED <<red, added, col_coloring>>

\* every clause has its gadget nodes and every variable its pair: without
\* them the lookups in solution1_to_solution2 raise before anything is
\* changed
R2Mapped ==
    /\ Len(r2.clause_outputs) = Len(clauses)
    /\ get_variables(clauses) \subseteq DictKeys(r2.var_nodes)

\* reduction.solution1_to_solution2(sat_assignment) on the R2 instance
R2Sol1To2 ==
    /\ r2.calls < MaxCalls
    /\ R2Mapped
    /\ \E sat_assignment \in Assignments :
         last' = [NoCall EXCEPT
                    !.op = "r2_solution1_to_solution2",
                    !.sat_assignment = sat_assignment,
                    !.ret_sets = R2Solution1To2(r2, clauses, sat_assignment)]
    /\ r2' = [r2 EXCEPT !.calls = @ + 1]
    /\ UNCHANGED <<clauses, nodes, edges, groups, color, is_next_node_id,
                   col_next_node_id, col_solution, r1>>
    /\ UNCHANGED <<red, added, col_coloring>>

Classes == {"T", "F", "B"}

\* the colourings of the nodes in todo that extend a colouring of partial,
\* keep the classes of pin and give the endpoints of no edge one class
RECURSIVE ExtendColourings(_, _, _, _)
ExtendColourings(partial, todo, es, pin) ==
    IF todo = {} THEN partial
    ELSE LET n == CHOOSE x \in todo : \A y \in todo : x[2] <= y[2]
             fits(f, c) ==
                 /\ n \in DOMAIN pin => pin[n] = c
                 /\ \A i \in 1..Len(es) :
                      /\ (es[i][1] = n /\ es[i][2] \in DOMAIN f)
                            => f[es[i][2]] # c
                      /\ (es[i][2] = n /\ es[i][1] \in DOMAIN f)
                            => f[es[i][1]] # c
         IN  ExtendColourings(
                 UNION {{(n :> c) @@ f : c \in {d \in Classes : fits(f, d)}}
                          : f \in partial},
                 todo \ {n}, es, pin)

\* the proper 3-colourings of the whole graph with the True, False and
\* Base nodes in the true, false and base class, as
\* [true class, false class, base class]
ProperColourings ==
    {<<{n \in nodes : f[n] = "T"}, {n \in nodes : f[n] = "F"},
       {n \in nodes : f[n] = "B"}>>
       : f \in ExtendColourings({<<>>}, nodes, edges,
                                (r2.true_node :> "T") @@ (r2.false_node :> "F")
                                @@ (r2.base_node :> "B"))}

\* reduction.solution2_to_solution1(solution_sets) on the R2 instance, for
\* the colourings a 3-colouring solver can return
R2Sol2To1 ==
    /\ r2.calls < MaxCalls
    /\ r2.builds > 0
    /\ \E solution_sets \in ProperColourings :
         last' = [NoCall EXCEPT
                    !.op = "r2_solution2_to_solution1",
                    !.sets = solution_sets,
                    !.ret_assignment = R2Solution2To1(r2, solution_sets)]
    /\ r2' = [r2 EXCEPT !.calls = @ + 1]
    /\ UNCHANGED <<clauses, nodes, edges, groups, color, is_next_node_id,
                   col_next_node_id, col_solution, r1>>
    /\ UNCHANGED <<red, added, col_coloring>>

\* reduction.test_solution(sat_assignment) on the R2 instance:
\* NPProblem.set_solution stores the classes, ThreeColoringProblem.evaluate
\* reads the nodes' colors
R2TestSolution ==
    /\ r2.calls < MaxCalls
    /\ R2Mapped
    /\ \E sat_assignment \in Assignments :
         LET sat_ok == ThreeSATEvaluate(clauses, sat_assignment)
             sol_sets == R2Solution1To2(r2, clauses, sat_assignment)
             col_ok == ThreeColoringEvaluate(edges, color)
         IN  /\ col_solution' = sol_sets
             /\ last' = [NoCall EXCEPT
                           !.op = "r2_test_solution",
                           !.sat_assignment = sat_assignment,
                           !.ret_sets = sol_sets,
                           !.ret_pair = <<sat_ok, col_ok>>]
    /\ r2' = [r2 EXCEPT !.calls = @ + 1]
    /\ UNCHANGED <<clauses, nodes, edges, groups, color, is_next_node_id,
                   col_next_node_id, r1>>
    /\ UNCHANGED <<red, added, col_coloring>>

\* the test script's round trip (test_3sat_to_3color.main, steps 6 and 7):
\* color_sets = solution1_to_solution2(sat_assignment),
\* three_col.set_solution(color_sets), then
\* recovered = solution2_to_solution1(color_sets)
R2RoundTrip ==
    /\ r2.calls < MaxCalls
    /\ R2Mapped
    /\ \E sat_assignment \in Assignments :
         LET color_sets == R2Solution1To2(r2, clauses, sat_assignment)
         IN  /\ col_solution' = color_sets
             /\ last' = [NoCall EXCEPT
                           !.op = "r2_round_trip",
                           !.sat_assignment = sat_assignment,
                           !.ret_sets = color_sets,
                           !.ret_assignment = R2Solution2To1(r2, color_sets)]
    /\ r2' = [r2 EXCEPT !.calls = @ + 1]
    /\ UNCHANGED <<clauses, nodes, edges, groups, color, is_next_node_id,
                   col_next_node_id, r1>>
    /\ UNCHANGED <<red, added, col_coloring>>

\* ------------------------------------------------ ThreeSATProblem alone
\* everything but the formula and the call record
targetVars == <<nodes, edges, groups, color, is_next_node_id,
                col_next_node_id, col_solution, col_coloring, r1, r2, red,
                added>>

InitSat ==
    /\ clauses = <<>>
    /\ Fresh

\* problem.load_formula(clause_list)
SatLoadFormula ==
    /\ Len(clauses) < MaxClauses
    /\ \E n \in 1..(MaxClauses - Len(clauses)) :
         \E clause_list \in [1..n -> ClauseTuples] :
            /\ clauses' = load_formula(clauses, clause_list)
            /\ last' = [NoCall EXCEPT !.op = "sat_load_formula",
                                      !.args = clause_list]
    /\ UNCHANGED targetVars

\* problem.evaluate(assignment)
SatEvaluate ==
    /\ \E assignment \in PartialAssignments :
         last' = [NoCall EXCEPT
                    !.op = "sat_evaluate",
                    !.sat_assignment = assignment,
                    !.ret = ThreeSATEvaluate(clauses, assignment)]
    /\ UNCHANGED clauses
    /\ UNCHANGED targetVars

\* problem.element.evaluate(solution): Formula.evaluate
SatFormulaEvaluate ==
    /\ \E solution \in PartialAssignments :
         LET res == FormulaEvaluate(clauses, solution, 1)
         IN  last' = [NoCall EXCEPT
                        !.op = "formula_evaluate",
                        !.sat_assignment = solution,
                        !.ret = (res = "True"),
                        !.error = IF res = "KeyError" THEN "KeyError"
                                  ELSE "none"]
    /\ UNCHANGED clauses
    /\ UNCHANGED targetVars

NextSat ==
    \/ SatLoadFormula
    \/ SatEvaluate
    \/ SatFormulaEvaluate

SpecSat == InitSat /\ [][NextSat]_vars

\* ------------------------------------------ IndependentSetProblem alone
\* a Node object made by the caller, as Node(999, "alien") of
\* test_edge_validation: no problem added it to a graph
AlienNode == <<"alien", 999>>

\* the names handed to add_node: none, a short string, a string of more
\* than 10 characters
NodeNames == {"None", "A", "a longer name"}

\* everything but the graph, the id counter and the call record
nonGraphVars == <<clauses, groups, col_next_node_id, col_solution,
                  col_coloring,
                  r1, r2, red, added>>

\* problem.add_node(name): with no name len(None) raises TypeError after
\* the first assertion passed; a long name fails the second assertion
ISAddNode ==
    /\ is_next_node_id <= MaxNodes
    /\ \E name \in NodeNames :
         LET node == <<"is", is_next_node_id>>
         IN  IF name = "A"
             THEN /\ nodes' = nodes \cup {node}
                  /\ color' = (node :> LIGHTBLUE) @@ color
                  /\ is_next_node_id' = is_next_node_id + 1
                  /\ last' = [NoCall EXCEPT !.op = "is_add_node",
                                            !.args = <<name>>,
                                            !.ret_set = {node}]
             ELSE /\ UNCHANGED <<nodes, color, is_next_node_id>>
                  /\ last' = [NoCall EXCEPT
                                !.op = "is_add_node",
                                !.args = <<name>>,
                                !.error = IF name = "None" THEN "TypeError"
                                          ELSE "AssertionError"]
    /\ UNCHANGED edges
    /\ UNCHANGED nonGraphVars

\* problem.add_edge(node1, node2)
ISAddEdge ==
    /\ Len(edges) < MaxEdges
    /\ \E node1, node2 \in nodes \cup {AlienNode, NoNode} :
         IF is_add_edge_ok(nodes, node1, node2)
         THEN /\ edges' = Append(edges, <<node1, node2>>)
              /\ last' = [NoCall EXCEPT !.op = "is_add_edge",
                                        !.args = <<node1, node2>>]
         ELSE /\ UNCHANGED edges
              /\ last' = [NoCall EXCEPT !.op = "is_add_edge",
                                        !.args = <<node1, node2>>,
                                        !.error = "AssertionError"]
    /\ UNCHANGED <<nodes, color, is_next_node_id>>
    /\ UNCHANGED nonGraphVars

\* problem.evaluate(node_ids), with node ids or with Node objects
ISEvaluate ==
    /\ \E node_ids \in NodeSets :
         \E result \in IndependentSetEvaluate(nodes, edges, node_ids) :
            last' = [NoCall EXCEPT !.op = "is_evaluate",
                                  !.set = node_ids,
                                  !.ret = result]
    /\ UNCHANGED <<nodes, edges, color, is_next_node_id>>
    /\ UNCHANGED nonGraphVars

NextIS ==
    \/ ISAddNode
    \/ ISAddEdge
    \/ ISEvaluate

SpecIS == InitSat /\ [][NextIS]_vars

\* ------------------------------------------------ Reduction (base class)
\* Variable objects and Node objects made by the caller, as in
\* test_reduction_click
Sources == {<<"var", i>> : i \in 1..MaxSources}

Targets == {<<"node", i>> : i \in 1..MaxTargets}

\* every element starts with its default color
InitRed ==
    /\ clauses = <<>>
    /\ nodes = {}
    /\ edges = <<>>
    /\ groups = <<>>
    /\ color = [e \in Sources \cup Targets |-> LIGHTBLUE]
    /\ is_next_node_id = 1
    /\ col_next_node_id = 1
    /\ col_solution = <<>>
    /\ col_coloring = <<>>
    /\ r1 = R1Init
    /\ r2 = R2Init
    /\ red = RedInit
    /\ added = [keys |-> {}, pairs |-> {}]
    /\ last = NoCall

\* everything but the Reduction instance, the colors and the call record
nonRedVars == <<clauses, nodes, edges, groups, is_next_node_id,
                col_next_node_id, col_solution, col_coloring, r1, r2>>

\* reduction.add_input1_to_input2_by_pair(input1, input2)
RedAddByPair ==
    /\ \E input1 \in Sources, input2 \in Targets :
         /\ red' = [red EXCEPT !.input1_to_input2_dict =
                        add_input1_to_input2_by_pair(@, input1, input2)]
         /\ added' = [keys |-> added.keys \cup {input1},
                      pairs |-> added.pairs \cup {<<input1, input2>>}]
         /\ last' = [NoCall EXCEPT !.op = "red_add_by_pair",
                                   !.args = <<input1, input2>>]
    /\ UNCHANGED color
    /\ UNCHANGED nonRedVars

\* reduction.add_input1_to_input2_by_set(input1, input2set)
RedAddBySet ==
    /\ \E input1 \in Sources, input2set \in SUBSET Targets :
         /\ red' = [red EXCEPT !.input1_to_input2_dict =
                        add_input1_to_input2_by_set(@, input1, input2set)]
         /\ added' = [keys |-> added.keys \cup {input1},
                      pairs |-> added.pairs
                                  \cup {<<input1, e>> : e \in input2set}]
         /\ last' = [NoCall EXCEPT !.op = "red_add_by_set",
                                   !.args = <<input1, input2set>>]
    /\ UNCHANGED color
    /\ UNCHANGED nonRedVars

\* reduction.display_input_to_input(clicked_set) for a set of elements of
\* clickable: reset_highlighted, then the clicked elements, then the
\* related elements of a clicked key or the first key related to exactly
\* the clicked set
display_input_to_input(clickable) ==
    /\ \E clicked_set \in SUBSET clickable :
         LET d == red.input1_to_input2_dict
             is_input1 ==
                 /\ Cardinality(clicked_set) = 1
                 /\ \E e1 \in clicked_set : DictHas(d, e1)
             related ==
                 IF is_input1
                 THEN DictGet(d, CHOOSE e1 \in clicked_set : TRUE)
                 ELSE {}
         IN  \E first \in Orders(clicked_set), second \in Orders(related) :
               LET highlighted ==
                       IF clicked_set = {} THEN <<>>
                       ELSE first \o second
                              \o (IF is_input1 THEN <<>>
                                  ELSE matching_key(d, clicked_set))
               IN  /\ red' = [red EXCEPT !.highlighted = highlighted]
                   /\ color' =
                         [e \in DOMAIN color |->
                            IF e \in Elems(highlighted) THEN HighlightColor
                            ELSE IF e \in Elems(red.highlighted)
                                 THEN LIGHTBLUE
                                 ELSE color[e]]
                   /\ last' = [NoCall EXCEPT
                                 !.op = "red_display",
                                 !.set = clicked_set]
    /\ UNCHANGED added
    /\ UNCHANGED nonRedVars

\* reduction.display_input_to_input(clicked_set) on the elements of the
\* click test
RedDisplay == display_input_to_input(Sources \cup Targets)

NextRed ==
    \/ RedAddByPair
    \/ RedAddBySet
    \/ RedDisplay

SpecRed == InitRed /\ [][NextRed]_vars

\* One R1 reduction on fresh problems: one build, then calls.
NextR1 ==
    \/ (r1.builds = 0 /\ R1Build)
    \/ R1Sol1To2
    \/ R1Sol2To1
    \/ R1TestSolution
    \/ R1RoundTrip

SpecR1 == Init /\ [][NextR1]_vars

\* One R2 reduction on fresh problems: one build, then calls.
NextR2 ==
    \/ (r2.builds = 0 /\ R2Build)
    \/ R2Sol1To2
    \/ R2Sol2To1
    \/ R2TestSolution
    \/ R2RoundTrip

SpecR2 == Init /\ [][NextR2]_vars

\* Builds and rebuilds of both reductions.
NextBuild ==
    \/ R1Build
    \/ R2Build

SpecBuild == Init /\ [][NextBuild]_vars

\* One reduction, R1 or R2, on fresh problems: one build, then calls.
NextCalls ==
    \/ (r2.builds = 0 /\ r2.calls = 0 /\ NextR1)
    \/ (r1.builds = 0 /\ r1.calls = 0 /\ NextR2)

SpecCalls == Init /\ [][NextCalls]_vars

\* A formula loaded clause list by clause list, then one build of one
\* reduction on fresh problems.
NextLoadBuild ==
    \/ (r1.builds = 0 /\ r2.builds = 0 /\ SatLoadFormula)
    \/ (r1.builds = 0 /\ r2.builds = 0 /\ R1Build)
    \/ (r1.builds = 0 /\ r2.builds = 0 /\ R2Build)

SpecLoadBuild == InitSat /\ [][NextLoadBuild]_vars

\* problem.load_formula_from_tuples(list_of_clause_tuples) on a fresh
\* problem, with clauses of three tuples as in the test scripts
SatLoadFromTuples ==
    /\ clauses = <<>>
    /\ r1.builds = 0
    /\ \E n \in 1..MaxClauses :
         \E list_of_clause_tuples \in [1..n -> [1..ClauseLen -> LiteralTuples]] :
            /\ clauses' = load_formula_from_tuples(clauses,
                                                   list_of_clause_tuples, 1)
            /\ last' = [NoCall EXCEPT !.op = "sat_load_formula_from_tuples",
                                      !.args = list_of_clause_tuples]
    /\ UNCHANGED targetVars

\* reduction.solution1_to_solution2(sat_assignment) on the R1 instance with
\* an assignment keyed by ids or by names
R1Sol1To2Keyed ==
    /\ r1.calls < MaxCalls
    /\ R1Mapped
    /\ \E sat_assignment \in KeyedAssignments :
         LET res == R1Solution1To2Keyed(
                        [independent_set |-> {},
                         output1_to_output2_pairs |->
                             r1.output1_to_output2_pairs,
                         error |-> "none"],
                        r1.input1_to_input2_pairs, clauses, sat_assignment, 1)
         IN  /\ r1' = [r1 EXCEPT
                         !.output1_to_output2_pairs =
                             res.output1_to_output2_pairs,
                         !.calls = @ + 1]
             /\ last' = [NoCall EXCEPT
                           !.op = "r1_solution1_to_solution2",
                           !.sat_assignment = sat_assignment,
                           !.ret_set = IF res.error = "none"
                                       THEN res.independent_set ELSE {},
                           !.error = res.error]
    /\ UNCHANGED <<clauses, nodes, edges, groups, color, is_next_node_id,
                   col_next_node_id, col_solution, r2>>
    /\ UNCHANGED <<red, added, col_coloring>>

\* A formula loaded from tuples, evaluated, and mapped forward by R1 after
\* one build, as in the reduction test scripts.
NextTuples ==
    \/ SatLoadFromTuples
    \/ SatEvaluate
    \/ (r1.builds = 0 /\ R1Build)
    \/ R1Sol1To2Keyed

SpecTuples == InitSat /\ [][NextTuples]_vars

\* ------------------------------------------- ThreeColoringProblem alone
\* the values of a color_assignment that are ints: an allowed color index,
\* or one past the last to be reduced modulo the number of colors
ColorIndexes == 0..Len(allowed_colors)

\* the values of a color_assignment that are tuples of length 3: an
\* allowed color or the color a Node is constructed with
ColorTuples == Elems(allowed_colors) \cup {LIGHTBLUE}

\* the color_assignment dicts handed to set_coloring: at most MaxColored
\* node ids, mapped to ints (by_index) or to color tuples (by_tuple)
ColorAssignments ==
    LET Ids == {S \in SUBSET (1..MaxNodes) : Cardinality(S) <= MaxColored}
    IN  {ca \in [by_index : UNION {[S -> ColorIndexes] : S \in Ids},
                 by_tuple : UNION {[S -> ColorTuples] : S \in Ids}] :
            /\ DOMAIN ca.by_index \cap DOMAIN ca.by_tuple = {}
            /\ Cardinality(DOMAIN ca.by_index \cup DOMAIN ca.by_tuple)
                  <= MaxColored}

\* everything a ThreeColoringProblem call on nodes and colors leaves alone
nonColVars == <<clauses, edges, groups, is_next_node_id, col_solution,
                r1, r2, red, added>>

\* problem.add_node() on the ThreeColoringProblem
ColAddNode ==
    /\ col_next_node_id <= MaxNodes
    /\ LET W == col_add_node(R2World)
       IN  /\ nodes' = W.nodes
           /\ color' = W.color
           /\ col_next_node_id' = W.next_id
    /\ last' = [NoCall EXCEPT !.op = "col_add_node"]
    /\ UNCHANGED col_coloring
    /\ UNCHANGED nonColVars

\* problem.set_coloring(color_assignment): an int is an index modulo the
\* number of allowed colors, a tuple is taken as the color
ColSetColoring ==
    /\ \E ca \in ColorAssignments :
         LET new(n) ==
                 IF n[2] \in DOMAIN ca.by_index
                 THEN allowed_colors[(ca.by_index[n[2]] % Len(allowed_colors)) + 1]
                 ELSE ca.by_tuple[n[2]]
             set == {n \in nodes :
                       n[2] \in DOMAIN ca.by_index \cup DOMAIN ca.by_tuple}
         IN  /\ color' = [n \in DOMAIN color |->
                             IF n \in set THEN new(n) ELSE color[n]]
             /\ col_coloring' =
                   [i \in DOMAIN col_coloring \cup {n[2] : n \in set} |->
                       IF \E n \in set : n[2] = i
                       THEN new(CHOOSE n \in set : n[2] = i)
                       ELSE col_coloring[i]]
    /\ last' = [NoCall EXCEPT !.op = "col_set_coloring"]
    /\ UNCHANGED <<nodes, col_next_node_id>>
    /\ UNCHANGED nonColVars

\* problem.reset_coloring()
ColResetColoring ==
    /\ color' = [n \in DOMAIN color |->
                    IF n \in nodes THEN allowed_colors[1] ELSE color[n]]
    /\ col_coloring' = <<>>
    /\ last' = [NoCall EXCEPT !.op = "col_reset_coloring"]
    /\ UNCHANGED <<nodes, col_next_node_id>>
    /\ UNCHANGED nonColVars

\* problem.handle_event(event) for a mouse click on node: the color moves
\* to the next allowed color; allowed_colors.index raises ValueError for a
\* color that is not in the list
ColHandleEvent ==
    /\ \E node \in nodes :
         LET current_idx ==
                 CHOOSE i \in 1..Len(allowed_colors) :
                    allowed_colors[i] = color[node]
             new_color == allowed_colors[(current_idx % Len(allowed_colors)) + 1]
         IN  IF color[node] \in Elems(allowed_colors)
             THEN /\ color' = [color EXCEPT ![node] = new_color]
                  /\ col_coloring' =
                        [i \in DOMAIN col_coloring \cup {node[2]} |->
                            IF i = node[2] THEN new_color ELSE col_coloring[i]]
                  /\ last' = [NoCall EXCEPT !.op = "col_handle_event",
                                            !.args = <<node>>]
             ELSE /\ UNCHANGED <<color, col_coloring>>
                  /\ last' = [NoCall EXCEPT !.op = "col_handle_event",
                                            !.args = <<node>>,
                                            !.error = "ValueError"]
    /\ UNCHANGED <<nodes, col_next_node_id>>
    /\ UNCHANGED nonColVars

\* reduction.display_input_to_input(clicked_set) on nodes of the
\* ThreeColoringProblem; the empty set is reset_highlighted alone
ColDisplay == display_input_to_input(nodes)

NextCol ==
    \/ ColAddNode
    \/ ColSetColoring
    \/ ColResetColoring
    \/ ColHandleEvent
    \/ ColDisplay

SpecCol == InitSat /\ [][NextCol]_vars

\* One R1 reduction on a fresh problem of at most MaxRepeatClauses clauses:
\* one build, then up to MaxRepeat solution mappings in either direction on
\* the same reduction object.
InitRepeat ==
    /\ clauses \in {f \in Formulas : Len(f) <= MaxRepeatClauses}
    /\ Fresh

NextRepeat ==
    \/ (r1.builds = 0 /\ R1Build)
    \/ R1Sol1To2Within(MaxRepeat)
    \/ R1Sol2To1Within(MaxRepeat)

SpecRepeat == InitRepeat /\ [][NextRepeat]_vars

\* ----------------------------------------------------------------- claims
\* no two members of S are joined by an edge
Independent(S) == \A a \in S, b \in S : a # b => ~hasEdge(edges, a, b)

\* the clause of the literal a node of the R1 graph stands for
ClauseOfNode(n) == DictGet(r1.input2_to_input1_pairs, n)[1]

\* the variable of the literal a node of the R1 graph stands for
VarOfNode(n) == LitAt(clauses, DictGet(r1.input2_to_input1_pairs, n)).name

\* the number of complementary pairs of literal occurrences
ComplementaryPairs ==
    Cardinality({p \in (1..Len(clauses)) \X (1..ClauseLen)
                        \X (1..Len(clauses)) \X (1..ClauseLen) :
                   /\ clauses[p[1]][p[2]].name = clauses[p[3]][p[4]].name
                   /\ ~clauses[p[1]][p[2]].is_negated
                   /\ clauses[p[3]][p[4]].is_negated})

\* C1: R1 forward soundness.  When solution1_to_solution2 is called, after
\* the build, with an assignment that satisfies the formula, the returned
\* set consists of nodes of the graph, no two of them adjacent, it has
\* exactly |clauses| nodes and at most one node per clause.
C1_R1ForwardSound ==
    (/\ last.op = "r1_solution1_to_solution2"
     /\ ThreeSATEvaluate(clauses, last.sat_assignment))
    => /\ last.ret_set \subseteq nodes
       /\ \A a \in last.ret_set, b \in last.ret_set :
              ~hasEdge(edges, a, b)
       /\ Cardinality(last.ret_set) = Len(clauses)
       /\ \A ci \in 1..Len(clauses) :
              Cardinality({n \in last.ret_set : ClauseOfNode(n) = ci}) <= 1

\* C1 witness: a satisfying assignment mapped for a two-clause formula
\* with complementary literals, where some clause's chosen literal is not
\* its first.
C1_Witness ==
    /\ last.op = "r1_solution1_to_solution2"
    /\ ThreeSATEvaluate(clauses, last.sat_assignment)
    /\ Len(clauses) = 2
    /\ ComplementaryPairs > 0
    /\ \E n \in last.ret_set :
          DictGet(r1.input2_to_input1_pairs, n)[2] > 1

\* C2: R1 backward soundness.  When solution2_to_solution1 is called with
\* a set of nodes of the built graph that is independent and has
\* |clauses| members, the returned assignment satisfies the formula.
C2_R1BackwardSound ==
    (/\ last.op = "r1_solution2_to_solution1"
     /\ last.set \subseteq nodes
     /\ Independent(last.set)
     /\ Cardinality(last.set) = Len(clauses))
    => ThreeSATEvaluate(clauses, last.ret_assignment)

\* C2 witness: an independent set of size 2 of a two-clause formula with
\* complementary literals, mapped back to an assignment with a true and a
\* false variable.
C2_Witness ==
    /\ last.op = "r1_solution2_to_solution1"
    /\ last.set \subseteq nodes
    /\ Independent(last.set)
    /\ Cardinality(last.set) = Len(clauses)
    /\ Len(clauses) = 2
    /\ ComplementaryPairs > 0
    /\ \E x \in DOMAIN last.ret_assignment : last.ret_assignment[x]
    /\ \E x \in DOMAIN last.ret_assignment : ~last.ret_assignment[x]

\* every node of the graph is in a class of sets, and no edge has both
\* endpoints in one class
ProperClasses(sets) ==
    /\ \A n \in nodes : \E k \in 1..3 : n \in sets[k]
    /\ \A i \in 1..Len(edges), k \in 1..3 :
          ~(edges[i][1] \in sets[k] /\ edges[i][2] \in sets[k])

\* C3: R2 forward soundness.  When solution1_to_solution2 is called, after
\* the build, with an assignment that satisfies the formula, the three
\* returned classes colour the whole graph and no edge of the graph has
\* both endpoints in the same class.
C3_R2ForwardSound ==
    (/\ last.op = "r2_solution1_to_solution2"
     /\ ThreeSATEvaluate(clauses, last.sat_assignment))
    => ProperClasses(last.ret_sets)

\* C3 witness: a satisfying assignment mapped for a two-clause formula
\* over two variables in which one clause has a false literal.
C3_Witness ==
    /\ last.op = "r2_solution1_to_solution2"
    /\ ThreeSATEvaluate(clauses, last.sat_assignment)
    /\ Len(clauses) = 2
    /\ Cardinality(get_variables(clauses)) = 2
    /\ \E ci \in 1..2, li \in 1..ClauseLen :
          ~R2LiteralTruth(clauses[ci][li], last.sat_assignment)

\* sets is a proper 3-colouring of the whole graph, given as
\* [true class, false class, base class]
ProperColouring(sets) ==
    /\ Len(sets) = 3
    /\ \A n \in nodes : Cardinality({k \in 1..3 : n \in sets[k]}) = 1
    /\ \A i \in 1..Len(edges), k \in 1..3 :
          ~(edges[i][1] \in sets[k] /\ edges[i][2] \in sets[k])
    /\ r2.true_node \in sets[1]
    /\ r2.false_node \in sets[2]
    /\ r2.base_node \in sets[3]

\* C4: R2 backward soundness.  When solution2_to_solution1 is called with
\* a proper 3-colouring of the whole built graph that has the True, False
\* and Base nodes in the true, false and base class, the returned
\* assignment satisfies the formula.
C4_R2BackwardSound ==
    (/\ last.op = "r2_solution2_to_solution1"
     /\ ProperColouring(last.sets))
    => ThreeSATEvaluate(clauses, last.ret_assignment)

\* C4 witness: a proper colouring of the graph of a two-clause formula
\* over two variables, mapped back.
C4_Witness ==
    /\ last.op = "r2_solution2_to_solution1"
    /\ ProperColouring(last.sets)
    /\ Len(clauses) = 2
    /\ Cardinality(get_variables(clauses)) = 2
    /\ \E x \in DOMAIN last.ret_assignment : ~last.ret_assignment[x]

\* the literal nodes of clause ci in the built R2 graph
R2ClauseLiteralNodes(ci) ==
    [li \in 1..ClauseLen |-> R2LiteralNode(r2.var_nodes, clauses[ci][li])]

\* the colourings of the six OR-gadget nodes of clause ci that are
\* conflict-free on every edge of the graph at a gadget node and give
\* out123 the true class, when the base triangle is coloured canonically
\* and the clause's literal nodes have the classes lit_classes
GadgetColourings(ci, lit_classes) ==
    LET six == r2.clause_outputs[ci]
        lnodes == R2ClauseLiteralNodes(ci)
        outside ==
            [n \in {r2.true_node, r2.false_node, r2.base_node}
                    \cup {lnodes[li] : li \in 1..ClauseLen} |->
                IF n = r2.true_node THEN "T"
                ELSE IF n = r2.false_node THEN "F"
                ELSE IF n = r2.base_node THEN "B"
                ELSE lit_classes[CHOOSE li \in 1..ClauseLen : lnodes[li] = n]]
    IN  ExtendColourings({outside}, {six[k] : k \in 1..6}, edges,
                         (six[6] :> "T"))

\* C5: R2 negative case.  In the built graph, for every clause, when the
\* base triangle is coloured canonically and the clause's three literal
\* nodes are all in the false class, no colouring of the clause's six
\* OR-gadget nodes is conflict-free on the gadget's edges and gives out123
\* the true class.
C5_R2NegativeCase ==
    last.op = "r2_build"
    => \A ci \in 1..Len(clauses) :
          GadgetColourings(ci, <<"F", "F", "F">>) = {}

\* C5 witness: a built graph with a clause over three distinct literal
\* nodes whose gadget does have such a colouring as soon as its first
\* literal node is in the true class.
C5_Witness ==
    /\ last.op = "r2_build"
    /\ \E ci \in 1..Len(clauses) :
          /\ Cardinality({R2ClauseLiteralNodes(ci)[li] : li \in 1..ClauseLen})
                = ClauseLen
          /\ GadgetColourings(ci, <<"T", "F", "F">>) # {}

\* each key of d is related to as many target elements in e, and e has no
\* other key
SameShape(d, e) ==
    /\ DictKeys(d) = DictKeys(e)
    /\ \A k \in DictKeys(d) :
          Cardinality(DictGet(d, k)) = Cardinality(DictGet(e, k))

\* C6: build idempotence.  A second build_graph_from_formula on the same
\* reduction instance (R1 or R2) leaves the target graph with the same
\* node count and edge count, and every source element related to the
\* same number of target nodes.
C6_BuildIdempotent ==
    [][((r1.builds >= 1 /\ r1'.builds = r1.builds + 1)
        \/ (r2.builds >= 1 /\ r2'.builds = r2.builds + 1))
       => /\ Cardinality(nodes') = Cardinality(nodes)
          /\ Len(edges') = Len(edges)
          /\ SameShape(r1.input1_to_input2_dict, r1'.input1_to_input2_dict)
          /\ SameShape(r2.input1_to_input2_dict, r2'.input1_to_input2_dict)
      ]_vars

\* C7: R2 round-trip spot check.  test_solution(A), called after the
\* build, returns (true, true) when A satisfies the formula, and its
\* second component is true exactly when the colouring mapped from A is a
\* proper colouring of the target graph.
C7_R2TestSolution ==
    last.op = "r2_test_solution"
    => /\ ThreeSATEvaluate(clauses, last.sat_assignment)
            => last.ret_pair = <<TRUE, TRUE>>
       /\ last.ret_pair[2] = ProperClasses(last.ret_sets)

\* C8: R1 rejection of a non-satisfying assignment.  For an assignment
\* that leaves a clause unsatisfied, the node set mapped by
\* solution1_to_solution2 has fewer than |clauses| nodes and test_solution
\* returns (false, false).
C8_R1RejectsUnsatisfying ==
    (/\ last.op = "r1_test_solution"
     /\ ~ThreeSATEvaluate(clauses, last.sat_assignment))
    => /\ Cardinality(last.ret_set) < Len(clauses)
       /\ last.ret_pair = <<FALSE, FALSE>>

\* C9: R1 round trip.  For an assignment A that satisfies the formula,
\* solution2_to_solution1(solution1_to_solution2(A)) satisfies the formula
\* again and agrees with A on the variable of every selected literal.
C9_R1RoundTrip ==
    (/\ last.op = "r1_round_trip"
     /\ ThreeSATEvaluate(clauses, last.sat_assignment))
    => /\ ThreeSATEvaluate(clauses, last.ret_assignment)
       /\ \A n \in last.ret_set :
              last.ret_assignment[VarOfNode(n)]
                  = last.sat_assignment[VarOfNode(n)]

\* C9 witness: a round trip of a satisfying assignment of a two-clause
\* formula in which a variable with no selected literal comes back with
\* another value than it had.
C9_Witness ==
    /\ last.op = "r1_round_trip"
    /\ ThreeSATEvaluate(clauses, last.sat_assignment)
    /\ Len(clauses) = 2
    /\ \E x \in get_variables(clauses) :
          last.ret_assignment[x] # last.sat_assignment[x]

\* C10: R2 round trip.  For every total assignment A,
\* solution2_to_solution1(solution1_to_solution2(A)) equals A on every
\* variable of the formula, and pos(x) is in the true class exactly when
\* A[x] is true.
C10_R2RoundTrip ==
    last.op = "r2_round_trip"
    => /\ DOMAIN last.ret_assignment = get_variables(clauses)
       /\ \A x \in get_variables(clauses) :
              /\ last.ret_assignment[x] = last.sat_assignment[x]
              /\ (DictGet(r2.var_nodes, x)[1] \in last.ret_sets[1])
                     = last.sat_assignment[x]

\* C10 witness: a round trip, for a two-clause formula over two
\* variables, of an assignment that does not satisfy it and has a true and
\* a false variable.
C10_Witness ==
    /\ last.op = "r2_round_trip"
    /\ Len(clauses) = 2
    /\ Cardinality(get_variables(clauses)) = 2
    /\ ~ThreeSATEvaluate(clauses, last.sat_assignment)
    /\ last.sat_assignment[1] # last.sat_assignment[2]

\* C11: formula evaluation.  For every formula and every assignment that
\* gives a value to each of its variables, ThreeSATProblem.evaluate returns
\* true exactly when every clause has a literal whose required value
\* (false if negated, true otherwise) is the assignment's value for its
\* variable.
C11_FormulaEvaluation ==
    (/\ last.op = "sat_evaluate"
     /\ get_variables(clauses) \subseteq DOMAIN last.sat_assignment)
    => last.ret =
          (\A ci \in 1..Len(clauses) : \E li \in 1..Len(clauses[ci]) :
              (IF clauses[ci][li].is_negated THEN FALSE ELSE TRUE)
                 = last.sat_assignment[clauses[ci][li].name])

\* C11 witness: a two-clause formula over two variables evaluated to
\* false under a total assignment that satisfies its first clause.
C11_Witness ==
    /\ last.op = "sat_evaluate"
    /\ Len(clauses) = 2
    /\ Cardinality(get_variables(clauses)) = 2
    /\ get_variables(clauses) \subseteq DOMAIN last.sat_assignment
    /\ evaluate_clause(clauses[1], last.sat_assignment)
    /\ ~last.ret

\* C13: literal polarity of load_formula.  A tuple (v, False) loaded
\* through load_formula is the negated literal of v and (v, True) the
\* positive one: every clause just loaded is satisfied by exactly the total
\* assignments that give one of its tuples' variables the tuple's flag.
C13_LoadFormulaPolarity ==
    last.op = "sat_load_formula"
    => \A k \in 1..Len(last.args) : \A assignment \in Assignments :
          evaluate_clause(clauses[Len(clauses) - Len(last.args) + k],
                          assignment)
            = (\E li \in 1..Len(last.args[k]) :
                  assignment[last.args[k][li][1]] = last.args[k][li][2])

\* the nodes a member of node_ids stands for: itself, or the nodes with
\* that id
NodesMeant(node_ids) ==
    {n \in nodes : n \in node_ids \/ IdOf(n) \in node_ids}

\* C12: independent-set evaluator.  IndependentSetProblem.evaluate(S)
\* returns true exactly when no two members of S are joined by an edge,
\* for S given as node ids and for S given as Node objects.
C12_IndependentSetEvaluator ==
    last.op = "is_evaluate"
    => last.ret = (\A a \in NodesMeant(last.set), b \in NodesMeant(last.set) :
                      ~hasEdge(edges, a, b))

\* C14: edge validation.  add_edge(n1, n2) raises an assertion error and
\* leaves the node set and the edge set as they were when n1 and n2 are the
\* same node or one of them is not in the graph; with two distinct nodes of
\* the graph it raises nothing and the edge joins the edge set.
C14_EdgeValidation ==
    [][last'.op = "is_add_edge"
       => LET n1 == last'.args[1]
              n2 == last'.args[2]
          IN  IF n1 = n2 \/ n1 \notin nodes \/ n2 \notin nodes
              THEN /\ last'.error = "AssertionError"
                   /\ nodes' = nodes
                   /\ edges' = edges
              ELSE /\ last'.error = "none"
                   /\ nodes' = nodes
                   /\ edges' = Append(edges, <<n1, n2>>)
      ]_vars

\* C14 witness: add_edge refused between a node of a graph that has an
\* edge and a node that is not in the graph.
C14_Witness ==
    /\ last.op = "is_add_edge"
    /\ last.error = "AssertionError"
    /\ last.args[1] \in nodes
    /\ last.args[2] = AlienNode
    /\ Len(edges) > 0

\* C15: duplicate edge insertion is idempotent.  add_edge between two
\* nodes that are already joined, in either order, leaves the edge set
\* and the edge count unchanged.
C15_DuplicateEdgeIdempotent ==
    [][(/\ last'.op = "is_add_edge"
        /\ hasEdge(edges, last'.args[1], last'.args[2]))
       => /\ edges' = edges
          /\ Len(edges') = Len(edges)
      ]_vars

\* C16: a malformed clause fails fast.  A build (R1 or R2) from a formula
\* that has a clause without exactly 3 literals ends with an error, and no
\* node or edge has been added to the target graph.
C16_MalformedClauseFailsFast ==
    (/\ last.op \in {"r1_build", "r2_build"}
     /\ \E ci \in 1..Len(clauses) : Len(clauses[ci]) # ClauseLen)
    => /\ last.error # "none"
       /\ nodes = {}
       /\ edges = <<>>

\* the calls that map or test a solution
SolutionCalls ==
    {"r1_solution1_to_solution2", "r1_solution2_to_solution1",
     "r1_test_solution", "r1_round_trip",
     "r2_solution1_to_solution2", "r2_solution2_to_solution1",
     "r2_test_solution", "r2_round_trip"}

C18_CorrespondenceAccumulates ==
    /\ DictKeys(red.input1_to_input2_dict) = added.keys
    /\ \A k \in added.keys :
          DictGet(red.input1_to_input2_dict, k)
             = {e \in Targets : <<k, e>> \in added.pairs}

\* C18 witness: a one-element set was added to a key that already had
\* another element, and another key is related to a single element.
C18_Witness ==
    /\ last.op = "red_add_by_set"
    /\ Cardinality(added.keys) = 2
    /\ Cardinality(DictGet(red.input1_to_input2_dict, last.args[1])) = 2
    /\ Cardinality(last.args[2]) = 1
    /\ \E k \in added.keys :
          Cardinality(DictGet(red.input1_to_input2_dict, k)) = 1

\* the source elements whose related target set is exactly the set C
RelatedExactly(d, C) == {k \in DictKeys(d) : DictGet(d, k) = C}

\* what a click on the set C is to highlight: the members of C, the
\* related elements of e when C = {e} for a source element e, and the
\* source elements related to exactly C when C is a set of target elements
ToHighlight(d, C) ==
    C \cup UNION {DictGet(d, e) : e \in {k \in C : Cardinality(C) = 1
                                                   /\ DictHas(d, k)}}
      \cup (IF C # {} /\ C \subseteq Targets THEN RelatedExactly(d, C)
            ELSE {})

\* C19: click-highlight correspondence.  A display_input_to_input(C) call
\* leaves in the highlighted list exactly the members of C, the target
\* elements related to e when C = {e} for a source element e, and the
\* source elements whose related set equals C when C is a set of target
\* elements; and every element highlighted before the call and not after
\* it has its default color again.
C19_ClickHighlight ==
    [][last'.op = "red_display"
       => /\ Elems(red'.highlighted)
               = ToHighlight(red.input1_to_input2_dict, last'.set)
          /\ \A e \in Elems(red.highlighted) \ Elems(red'.highlighted) :
                color'[e] = LIGHTBLUE
      ]_vars

\* the positions of clause ci whose literal the assignment a makes true:
\* a positive literal of a true variable, a negated one of a false variable
TruePositions(ci, a) ==
    {li \in 1..Len(clauses[ci]) :
        a[clauses[ci][li].name] = ~clauses[ci][li].is_negated}

\* the clauses with a literal the assignment a makes true
SatisfiedClauses(a) ==
    {ci \in 1..Len(clauses) : TruePositions(ci, a) # {}}

\* C20: R1 forward selection order.  For every total assignment,
\* solution1_to_solution2 raises no error and returns, for each clause with
\* a true literal, the node of the first true literal in the clause's
\* order and no other node; so it returns as many nodes as there are
\* satisfied clauses.
C20_R1SelectionOrder ==
    last.op = "r1_solution1_to_solution2"
    => LET a == last.sat_assignment
       IN  /\ last.error = "none"
           /\ last.ret_set =
                 {DictGet(r1.input1_to_input2_pairs,
                          <<ci, CHOOSE li \in TruePositions(ci, a) :
                                   \A lj \in TruePositions(ci, a) : li <= lj>>)
                    : ci \in SatisfiedClauses(a)}
           /\ Cardinality(last.ret_set) = Cardinality(SatisfiedClauses(a))

\* C20 witness: an assignment that does not satisfy a two-clause formula
\* was mapped; one clause has no true literal, and in the other the first
\* literal is false and two later literals are true.
C20_Witness ==
    /\ last.op = "r1_solution1_to_solution2"
    /\ r1.builds = 1
    /\ Len(clauses) = 2
    /\ Cardinality(SatisfiedClauses(last.sat_assignment)) = 1
    /\ \E ci \in 1..2 : TruePositions(ci, last.sat_assignment) = {2, 3}
    /\ Cardinality(last.ret_set) = 1

\* C21: R1 construction.  After one build on an empty target the graph has
\* one node per literal occurrence, three per clause; the literal-to-node
\* and node-to-literal maps are inverse bijections between the literal
\* occurrences and the nodes; and two distinct nodes are joined exactly
\* when their literals are of one clause or are of one variable with
\* opposite polarity.
C21_R1Construction ==
    r1.builds = 1
    => LET occurrences == {<<ci, li>> : ci \in 1..Len(clauses),
                                        li \in 1..ClauseLen}
           lit_to_node == r1.input1_to_input2_pairs
           node_to_lit == r1.input2_to_input1_pairs
       IN  /\ Cardinality(nodes) = ClauseLen * Len(clauses)
           /\ DictKeys(lit_to_node) = occurrences
           /\ DictKeys(node_to_lit) = nodes
           /\ Len(lit_to_node) = Cardinality(occurrences)
           /\ Len(node_to_lit) = Cardinality(nodes)
           /\ \A l \in occurrences :
                 /\ DictGet(lit_to_node, l) \in nodes
                 /\ DictGet(node_to_lit, DictGet(lit_to_node, l)) = l
           /\ \A n \in nodes :
                 DictGet(lit_to_node, DictGet(node_to_lit, n)) = n
           /\ \A a \in nodes, b \in nodes :
                 a # b =>
                   (hasEdge(edges, a, b)
                      <=> LET la == LitAt(clauses, DictGet(node_to_lit, a))
                              lb == LitAt(clauses, DictGet(node_to_lit, b))
                          IN  \/ ClauseOfNode(a) = ClauseOfNode(b)
                              \/ /\ la.name = lb.name
                                 /\ la.is_negated # lb.is_negated)

\* C21 witness: the built graph of a two-clause formula that has a pair of
\* complementary literals in different clauses and a pair of nodes of
\* different clauses that are not joined.
C21_Witness ==
    /\ r1.builds = 1
    /\ Len(clauses) = 2
    /\ Cardinality(nodes) = 2 * ClauseLen
    /\ \E a \in nodes, b \in nodes :
          /\ ClauseOfNode(a) # ClauseOfNode(b)
          /\ hasEdge(edges, a, b)
    /\ \E a \in nodes, b \in nodes :
          /\ ClauseOfNode(a) # ClauseOfNode(b)
          /\ ~hasEdge(edges, a, b)

\* an edge without its direction
Unordered(a, b) == {a, b}

\* the edges the R2 construction is to have for clause ci, whose gadget
\* nodes are six = (g1_12, g2_12, out12, g1_123, g2_123, out123)
R2ExpectedClauseEdges(ci) ==
    LET six == r2.clause_outputs[ci]
        l(li) == LET pn == DictGet(r2.var_nodes, clauses[ci][li].name)
                 IN  IF clauses[ci][li].is_negated THEN pn[2] ELSE pn[1]
    IN  {Unordered(six[1], l(1)), Unordered(six[2], l(2)),
         Unordered(six[1], six[2]), Unordered(six[2], six[3]),
         Unordered(six[3], six[1]),
         Unordered(six[4], six[3]), Unordered(six[5], l(3)),
         Unordered(six[4], six[5]), Unordered(six[5], six[6]),
         Unordered(six[6], six[4]),
         Unordered(six[6], r2.base_node), Unordered(six[6], r2.false_node)}

\* the edges the R2 construction is to have
R2ExpectedEdges ==
    {Unordered(r2.base_node, r2.true_node),
     Unordered(r2.true_node, r2.false_node),
     Unordered(r2.false_node, r2.base_node)}
    \cup UNION {LET pn == DictGet(r2.var_nodes, x)
                IN  {Unordered(pn[1], pn[2]), Unordered(pn[1], r2.base_node),
                     Unordered(pn[2], r2.base_node)}
                  : x \in get_variables(clauses)}
    \cup UNION {R2ExpectedClauseEdges(ci) : ci \in 1..Len(clauses)}

\* C22: R2 construction.  After one build on an empty target for a formula
\* with V distinct variables and C clauses, the graph has 3 + 2V + 6C
\* nodes (the base triangle, a pos and a neg node per variable, six gadget
\* nodes per clause) and its edges are exactly the base triangle, pos-neg,
\* pos-Base and neg-Base of every variable, the ten edges of the two
\* chained OR-gadgets of every clause, and out123-Base and out123-False.
C22_R2Construction ==
    r2.builds = 1
    => LET V == Cardinality(get_variables(clauses))
           C == Len(clauses)
           named == {r2.base_node, r2.true_node, r2.false_node}
                    \cup UNION {{DictGet(r2.var_nodes, x)[1],
                                 DictGet(r2.var_nodes, x)[2]}
                                  : x \in get_variables(clauses)}
                    \cup UNION {Elems(r2.clause_outputs[ci])
                                  : ci \in 1..Len(r2.clause_outputs)}
       IN  /\ Cardinality(nodes) = 3 + 2 * V + 6 * C
           /\ DictKeys(r2.var_nodes) = get_variables(clauses)
           /\ Len(r2.clause_outputs) = C
           /\ nodes = named
           /\ {Unordered(edges[i][1], edges[i][2]) : i \in 1..Len(edges)}
                 = R2ExpectedEdges
           /\ Len(edges) = 3 + 3 * V + 12 * C
           /\ \A i \in 1..Len(edges) : edges[i][1] # edges[i][2]

\* C22 witness: the built graph of a two-clause formula over two variables
\* in which a clause has a negated and a positive literal of one variable.
C22_Witness ==
    /\ r2.builds = 1
    /\ Len(clauses) = 2
    /\ Cardinality(get_variables(clauses)) = 2
    /\ Cardinality(nodes) = 3 + 2 * 2 + 6 * 2
    /\ \E ci \in 1..2, li \in 1..ClauseLen, lj \in 1..ClauseLen :
          /\ clauses[ci][li].name = clauses[ci][lj].name
          /\ clauses[ci][li].is_negated
          /\ ~clauses[ci][lj].is_negated

ClauseHasTrueLiteral(ci, a) ==
    \E li \in 1..ClauseLen : a[clauses[ci][li].name] # clauses[ci][li].is_negated

\* the ten edges of the two chained OR-gadgets of clause ci, without the
\* two edges that tie out123 to Base and False
R2OrGadgetEdges(ci) ==
    R2ExpectedClauseEdges(ci)
       \ {Unordered(r2.clause_outputs[ci][6], r2.base_node),
          Unordered(r2.clause_outputs[ci][6], r2.false_node)}

\* the classes of the returned solution give the endpoints of no edge of
\* the OR-gadgets of clause ci one colour
GadgetConflictFree(ci, sets) ==
    \A e \in R2OrGadgetEdges(ci) :
        \A k \in 1..3 : ~(e \subseteq sets[k])

\* C24: the R2 case table.  For each of the 8 truth combinations of a
\* clause's literals, the classes solution1_to_solution2 gives the six
\* OR-gadget nodes, with the literal nodes and the base triangle in the
\* classes of their truth values, put the endpoints of no edge of the two
\* OR-gadgets in one class, and out123 is in the True class exactly when
\* one of the three literals is true.
C24_R2CaseTable ==
    (/\ last.op = "r2_solution1_to_solution2"
     /\ r2.builds = 1)
    => \A ci \in 1..Len(clauses) :
          /\ GadgetConflictFree(ci, last.ret_sets)
          /\ r2.clause_outputs[ci][6] \in last.ret_sets[1]
                <=> ClauseHasTrueLiteral(ci, last.sat_assignment)

\* the literal occurrences of variable x whose node is a member of S
SelectedLiterals(S, x) ==
    {l \in DictKeys(r1.input1_to_input2_pairs) :
        /\ DictGet(r1.input1_to_input2_pairs, l) \in S
        /\ LitAt(clauses, l).name = x}

\* C25: shape of the R1 backward mapping.  For every node set S,
\* solution2_to_solution1(S) returns an assignment of exactly the
\* variables of the formula; a variable with a selected literal gets the
\* value of a selected literal of it (true for a positive, false for a
\* negated one), the first in the order the literals were mapped; a
\* variable with no selected literal gets false; and for an independent S
\* the value agrees with every selected literal of the variable, so the
\* order of the visit plays no part.
C25_R1BackwardShape ==
    last.op = "r1_solution2_to_solution1"
    => LET S == last.set
           ret == last.ret_assignment
           first(x) == CHOOSE l \in SelectedLiterals(S, x) :
                          \A m \in SelectedLiterals(S, x) :
                             \/ l[1] < m[1]
                             \/ l[1] = m[1] /\ l[2] <= m[2]
       IN  /\ DOMAIN ret = get_variables(clauses)
           /\ \A x \in get_variables(clauses) :
                 /\ ret[x] \in BOOLEAN
                 /\ SelectedLiterals(S, x) = {} => ret[x] = FALSE
                 /\ SelectedLiterals(S, x) # {}
                       => ret[x] = ~LitAt(clauses, first(x)).is_negated
                 /\ Independent(S)
                       => \A l \in SelectedLiterals(S, x) :
                             ret[x] = ~LitAt(clauses, l).is_negated

\* C25 witness: an independent set of the built graph with two selected
\* literals of one variable, a second variable with no selected literal,
\* mapped to an assignment that makes the first variable true.
C25_Witness ==
    /\ last.op = "r1_solution2_to_solution1"
    /\ r1.builds = 1
    /\ Independent(last.set)
    /\ \E x \in get_variables(clauses), y \in get_variables(clauses) :
          /\ Cardinality(SelectedLiterals(last.set, x)) = 2
          /\ SelectedLiterals(last.set, y) = {}
          /\ last.ret_assignment[x]
          /\ ~last.ret_assignment[y]

\* C26: evaluation is total with a fixed default.  For every formula and
\* every partial assignment ThreeSATProblem.evaluate raises no error and
\* returns what the formula evaluates to when every variable without a
\* value is false, and Formula.evaluate raises no error and returns the
\* same.
C26_EvaluationTotal ==
    last.op \in {"sat_evaluate", "formula_evaluate"}
    => LET completed ==
               [x \in VarNames |->
                   IF x \in DOMAIN last.sat_assignment
                   THEN last.sat_assignment[x] ELSE FALSE]
       IN  /\ last.error = "none"
           /\ last.ret =
                 (\A ci \in 1..Len(clauses) : \E li \in 1..Len(clauses[ci]) :
                      completed[clauses[ci][li].name]
                         # clauses[ci][li].is_negated)

\* the variable id a name made by load_formula_from_tuples stands for
IdOfName(name) == name - MaxVars

\* C27: variable keys after load_formula_from_tuples.  For a formula loaded
\* from tuples over integer variable ids and a total assignment A keyed by
\* the same ids, evaluate(A) is the value of the formula when each literal
\* reads the value A gives its id, and the R1 forward mapping raises no
\* error and selects per clause the first literal that is true under that
\* reading.
C27_VariableKeys ==
    LET A == last.sat_assignment
        true_at(ci, li) ==
            A[IdOfName(clauses[ci][li].name)] # clauses[ci][li].is_negated
    IN  /\ (/\ last.op = "sat_evaluate"
            /\ DOMAIN A = VarNames)
           => last.ret =
                 (\A ci \in 1..Len(clauses) :
                     \E li \in 1..Len(clauses[ci]) : true_at(ci, li))
        /\ (/\ last.op = "r1_solution1_to_solution2"
            /\ DOMAIN A = VarNames)
           => /\ last.error = "none"
              /\ \A ci \in 1..Len(clauses) :
                    (\E li \in 1..Len(clauses[ci]) : true_at(ci, li))
                    => \E n \in last.ret_set :
                          DictGet(r1.input2_to_input1_pairs, n)[1] = ci

\* C28: instance isolation.  A build through the IndependentSetProblem
\* leaves the nodes, edges and groups of the ThreeColoringProblem's graph
\* unchanged, a build through the ThreeColoringProblem leaves those of the
\* IndependentSetProblem's graph unchanged, and the node ids of a graph are
\* unique within it.
C28_InstanceIsolation ==
    [][/\ r1'.builds = r1.builds + 1 => GraphOf("col")' = GraphOf("col")
       /\ r2'.builds = r2.builds + 1 => GraphOf("is")' = GraphOf("is")
       /\ \A a \in GraphOf("is").nodes', b \in GraphOf("is").nodes' :
             a # b => a[2] # b[2]
       /\ \A a \in GraphOf("col").nodes', b \in GraphOf("col").nodes' :
             a # b => a[2] # b[2]
      ]_vars

\* C29: palette invariant.  After any sequence of add_node, set_coloring,
\* reset_coloring, click color cycling and click highlighting on a
\* ThreeColoringProblem, the color of every node is one of the three
\* allowed colors, and color cycling has not failed.
C29_PaletteInvariant ==
    /\ \A n \in nodes : color[n] \in Elems(allowed_colors)
    /\ last.op = "col_handle_event" => last.error = "none"

\* C30: freshness of the R1 solution correspondence.  Right after a call
\* of solution1_to_solution2, output1_to_output2_pairs holds exactly the
\* literal-to-node pairs that call selected, one for each clause the
\* assignment satisfies, and nothing an earlier call left; right after a
\* call of solution2_to_solution1, output2_to_output1_pairs holds exactly
\* the graph nodes of the set that call was given.
C30_CorrespondenceFreshness ==
    /\ last.op = "r1_solution1_to_solution2"
       => LET a == last.sat_assignment
              chosen == {<<ci, CHOOSE li \in TruePositions(ci, a) :
                                  \A lj \in TruePositions(ci, a) : li <= lj>>
                           : ci \in SatisfiedClauses(a)}
          IN  /\ DictKeys(r1.output1_to_output2_pairs) = chosen
              /\ \A l \in chosen :
                    DictGet(r1.output1_to_output2_pairs, l) =
                        DictGet(r1.input1_to_input2_pairs, l)
    /\ last.op = "r1_solution2_to_solution1"
       => DictKeys(r1.output2_to_output1_pairs) =
             {r1.input1_to_input2_pairs[i][2] :
                 i \in {j \in 1..Len(r1.input1_to_input2_pairs) :
                           r1.input1_to_input2_pairs[j][2] \in last.set}}

====
